---- MODULE Spec2Model ----
(***************************************************************************)
(* Model of the snakemake UGE profile's status checker (uge_status.py):    *)
(* StatusChecker.get_status polls `qstat -j <jobid>` up to                 *)
(* max_status_checks times and falls back to the per-job exit-status file  *)
(* {statdir}/{jobid}.exit.  Text is modelled as sequences of one-character *)
(* strings so that strip(), startswith(), split() and slicing are computed *)
(* as the Python code computes them.                                       *)
(***************************************************************************)
EXTENDS Integers, Sequences, FiniteSets, TLC

\* ------------------------------------------------------------------ bounds

\* Largest configured max_status_checks explored (CookieCutter.get_max_qstat_checks).
MaxChecks == 3

\* ------------------------------------------------------------- text helpers

Whitespace == {" ", "\n", "\t"}

\* s[from..] (1-based), the empty text when from is past the end
Drop(s, from) == IF from > Len(s) THEN <<>> ELSE SubSeq(s, from, Len(s))

\* str.strip(): leading and trailing whitespace removed
Strip(s) ==
    LET idx == {i \in 1..Len(s) : s[i] \notin Whitespace}
    IN  IF idx = {} THEN <<>>
        ELSE LET lo == CHOOSE i \in idx : \A j \in idx : i <= j
                 hi == CHOOSE i \in idx : \A j \in idx : j <= i
             IN  SubSeq(s, lo, hi)

\* str.startswith(prefix)
StartsWith(s, prefix) ==
    /\ Len(s) >= Len(prefix)
    /\ SubSeq(s, 1, Len(prefix)) = prefix

\* s[-2:]: the last two characters, or all of s when it is shorter
LastTwo(s) == IF Len(s) <= 2 THEN s ELSE SubSeq(s, Len(s) - 1, Len(s))

\* str.split("\n"): the pieces between newlines ("" gives <<"">>)
RECURSIVE SplitLines(_)
SplitLines(s) ==
    LET nl == {i \in 1..Len(s) : s[i] = "\n"}
    IN  IF nl = {} THEN << s >>
        ELSE LET k == CHOOSE i \in nl : \A j \in nl : i <= j
             IN  << SubSeq(s, 1, k - 1) >> \o SplitLines(Drop(s, k + 1))

\* file.readlines(): the lines with their line ends kept ("" gives <<>>)
RECURSIVE ReadLines(_)
ReadLines(s) ==
    LET nl == {i \in 1..Len(s) : s[i] = "\n"}
    IN  IF s = <<>> THEN <<>>
        ELSE IF nl = {} THEN << s >>
        ELSE LET k == CHOOSE i \in nl : \A j \in nl : i <= j
             IN  << SubSeq(s, 1, k) >> \o ReadLines(Drop(s, k + 1))

\* --------------------------------------------------------- StatusChecker

SUCCESS == "success"
RUNNING == "running"
FAILED == "failed"

\* "status is None" in get_status
None == "None"

\* the keys of STATUS_TABLE, as texts
StatusKeys ==
    { <<"r">>, <<"x">>, <<"t">>, <<"s">>, <<"R">>, <<"q", "w">>, <<"d">>, <<"E">>,
      <<"F", "A", "I", "L">>, <<"1">>, <<"S", "U", "C", "C", "E", "S", "S">>, <<"0">> }

STATUS_TABLE_E_running(status) ==
    IF status \in { <<"r">>, <<"x">>, <<"t">>, <<"s">>, <<"R">>, <<"q", "w">>, <<"E">> }
    THEN RUNNING
    ELSE IF status \in { <<"d">>, <<"F", "A", "I", "L">>, <<"1">> } THEN FAILED
    ELSE SUCCESS

\* STATUS_TABLE[status], for status \in StatusKeys
STATUS_TABLE(status) ==
    IF status \in { <<"r">>, <<"x">>, <<"t">>, <<"s">>, <<"R">>, <<"q", "w">> }
    THEN RUNNING
    ELSE IF status \in { <<"d">>, <<"E">>, <<"F", "A", "I", "L">>, <<"1">> } THEN FAILED
    ELSE SUCCESS

\* the stderr prefix by which qstat says that it does not know the job
JobsDoNotExist == <<"F", "o", "l", "l", "o", "w", "i", "n", "g", " ", "j", "o", "b", "s", " ", "d", "o", " ", "n", "o", "t", " ", "e", "x", "i", "s", "t">>

JobStateKey == <<"j", "o", "b", "_", "s", "t", "a", "t", "e">>

\* _qstat_job_state: the last two characters, stripped, of the first line that
\* starts with "job_state"; "" when there is no such line
qstat_job_state(output_stream) ==
    LET lines == SplitLines(output_stream)
        hits == {i \in 1..Len(lines) : StartsWith(lines[i], JobStateKey)}
    IN  IF hits = {} THEN <<>>
        ELSE LET k == CHOOSE i \in hits : \A j \in hits : i <= j
             IN  Strip(LastTwo(Strip(lines[k])))

\* OSLayer.run_process: the exit code and the stripped stdout and stderr
run_process(raw) ==
    [returncode |-> raw.returncode,
     output_stream |-> Strip(raw.stdout),
     error_stream |-> Strip(raw.stderr)]

\* what a call returns or raises; why and token record the branch taken and the
\* raw status token it read
Return(v, why, tok) == [kind |-> "return", value |-> v, why |-> why, token |-> tok]
Raise(e, why, tok) == [kind |-> "raise", value |-> e, why |-> why, token |-> tok]

query_status_using_qstat_gone_is_error(p) ==
    IF p.returncode # 0
    THEN Raise("QstatError", "finished", <<>>)
    ELSE IF p.output_stream = <<>>
    THEN Raise("QstatError", "empty", <<>>)
    ELSE LET status == qstat_job_state(p.output_stream)
         IN  IF status \notin StatusKeys
             THEN Raise("KeyError", "unknown", status)
             ELSE Return(STATUS_TABLE(status), "mapped", status)

query_status_using_qstat_gone_is_failed(p) ==
    IF p.returncode # 0
    THEN IF StartsWith(p.error_stream, JobsDoNotExist)
         THEN Return(FAILED, "finished", <<>>)
         ELSE Raise("QstatError", "returncode", <<>>)
    ELSE IF p.output_stream = <<>>
    THEN Raise("QstatError", "empty", <<>>)
    ELSE LET status == qstat_job_state(p.output_stream)
         IN  IF status \notin StatusKeys
             THEN Raise("KeyError", "unknown", status)
             ELSE Return(STATUS_TABLE(status), "mapped", status)

\* _query_status_using_qstat, on what run_process gave for the qstat command
query_status_using_qstat(p) ==
    IF p.returncode # 0
    THEN IF StartsWith(p.error_stream, JobsDoNotExist)
         THEN Return("finished", "finished", <<>>)
         ELSE Raise("QstatError", "returncode", <<>>)
    ELSE IF p.output_stream = <<>>
    THEN Raise("QstatError", "empty", <<>>)
    ELSE LET status == qstat_job_state(p.output_stream)
         IN  IF status \notin StatusKeys
             THEN Raise("KeyError", "unknown", status)
             ELSE Return(STATUS_TABLE(status), "mapped", status)

\* the states of the exit-status file {statdir}/{jobid}.exit other than its text
Absent == [state |-> "absent", text |-> <<>>]
Unreadable == [state |-> "unreadable", text |-> <<>>]
File(text) == [state |-> "file", text |-> text]

\* the exit-status file was not read in this call
NotRead == [state |-> "notread", text |-> <<>>]

\* OSLayer.tail(path, num_lines=1): the last line of the file, as readlines()
\* gives the output of `tail -n 1`
tail(file) ==
    IF file = Absent THEN Raise("FileNotFoundError", "absent", <<>>)
    ELSE IF file = Unreadable THEN Raise("TailError", "tail", <<>>)
    ELSE LET lines == ReadLines(file.text)
         IN  Return(IF lines = <<>> THEN <<>> ELSE << lines[Len(lines)] >>, "read", <<>>)

query_status_using_cluster_log_absent_is_failed(file) ==
    LET lastline == tail(file)
    IN  IF lastline.kind = "raise"
        THEN IF lastline.value \in {"FileNotFoundError", "ValueError"}
             THEN Return(FAILED, "absent", <<>>)
             ELSE lastline
        ELSE IF lastline.value = <<>>
        THEN Raise("IndexError", "nolines", <<>>)
        ELSE LET status == Strip(lastline.value[1])
             IN  IF status \notin StatusKeys
                 THEN Raise("KeyError", "unknown", status)
                 ELSE Return(STATUS_TABLE(status), "mapped", status)

query_status_using_cluster_log_unknown_is_failed(file) ==
    LET lastline == tail(file)
    IN  IF lastline.kind = "raise"
        THEN IF lastline.value \in {"FileNotFoundError", "ValueError"}
             THEN Return(STATUS_TABLE(<<"r">>), "absent", <<>>)
             ELSE lastline
        ELSE IF lastline.value = <<>>
        THEN Return(FAILED, "nolines", <<>>)
        ELSE LET status == Strip(lastline.value[1])
             IN  IF status \notin StatusKeys
                 THEN Return(FAILED, "unknown", status)
                 ELSE Return(STATUS_TABLE(status), "mapped", status)

\* _query_status_using_cluster_log, on the state of the exit-status file
query_status_using_cluster_log(file) ==
    LET lastline == tail(file)
    IN  IF lastline.kind = "raise"
        THEN IF lastline.value \in {"FileNotFoundError", "ValueError"}
             THEN Return(STATUS_TABLE(<<"r">>), "absent", <<>>)
             ELSE lastline
        ELSE IF lastline.value = <<>>
        THEN Raise("IndexError", "nolines", <<>>)
        ELSE LET status == Strip(lastline.value[1])
             IN  IF status \notin StatusKeys
                 THEN Raise("KeyError", "unknown", status)
                 ELSE Return(STATUS_TABLE(status), "mapped", status)

\* ------------------------------------------------------------ environment

QstatHeader == <<"j", "o", "b", "_", "n", "u", "m", "b", "e", "r", ":", " ", "1", "2", "3", "\n", "o", "w", "n", "e", "r", ":", " ", "u", "\n">>
JobStateLine == <<"j", "o", "b", "_", "s", "t", "a", "t", "e", " ", "1", ":", " ">>

\* stdout of `qstat -j` for a job the scheduler lists in state tok
QstatOut(tok) == QstatHeader \o JobStateLine \o tok \o <<"\n">>

\* what the qstat process can give: exit code, stdout, stderr
QstatRuns ==
    << [returncode |-> 0, stdout |-> QstatOut(<<"r">>), stderr |-> <<>>],
       [returncode |-> 0, stdout |-> QstatOut(<<"q", "w">>), stderr |-> <<>>],
       [returncode |-> 0, stdout |-> QstatOut(<<"t">>), stderr |-> <<>>],
       [returncode |-> 0, stdout |-> QstatOut(<<"s">>), stderr |-> <<>>],
       [returncode |-> 0, stdout |-> QstatOut(<<"x">>), stderr |-> <<>>],
       [returncode |-> 0, stdout |-> QstatOut(<<"R">>), stderr |-> <<>>],
       [returncode |-> 0, stdout |-> QstatOut(<<"d">>), stderr |-> <<>>],
       [returncode |-> 0, stdout |-> QstatOut(<<"E">>), stderr |-> <<>>],
       [returncode |-> 0, stdout |-> QstatOut(<<"E", "q", "w">>), stderr |-> <<>>],
       [returncode |-> 0, stdout |-> QstatOut(<<"T">>), stderr |-> <<>>],
       [returncode |-> 0, stdout |-> QstatOut(<<"h">>), stderr |-> <<>>],
       [returncode |-> 0, stdout |-> QstatOut(<<"S">>), stderr |-> <<>>],
       [returncode |-> 0, stdout |-> QstatOut(<<"N">>), stderr |-> <<>>],
       [returncode |-> 0, stdout |-> QstatOut(<<"P">>), stderr |-> <<>>],
       [returncode |-> 0, stdout |-> QstatOut(<<"w">>), stderr |-> <<>>],
       [returncode |-> 0, stdout |-> QstatOut(<<"h", "q", "w">>), stderr |-> <<>>],
       [returncode |-> 0, stdout |-> QstatOut(<<"d", "r">>), stderr |-> <<>>],
       [returncode |-> 0, stdout |-> QstatHeader, stderr |-> <<>>],
       [returncode |-> 0, stdout |-> <<"\n">>, stderr |-> <<>>],
       [returncode |-> 1, stdout |-> <<>>, stderr |-> <<"F", "o", "l", "l", "o", "w", "i", "n", "g", " ", "j", "o", "b", "s", " ", "d", "o", " ", "n", "o", "t", " ", "e", "x", "i", "s", "t", ":", " ", "\n", "1", "2", "3", "\n">>],
       [returncode |-> 1, stdout |-> <<>>, stderr |-> <<"e", "r", "r", "o", "r", ":", " ", "c", "o", "m", "m", "l", "i", "b", " ", "e", "r", "r", "o", "r", "\n">>],
       [returncode |-> 1, stdout |-> <<>>, stderr |-> <<>>] >>

\* the state field of the job_state line of a qstat output: the last word of
\* the first line that starts with "job_state"; "" when there is no such line
StateField(stdout) ==
    LET lines == SplitLines(stdout)
        hits == {i \in 1..Len(lines) : StartsWith(lines[i], JobStateKey)}
    IN  IF hits = {} THEN <<>>
        ELSE LET line == Strip(lines[CHOOSE i \in hits : \A j \in hits : i <= j])
                 blanks == {i \in 1..Len(line) : line[i] \in Whitespace}
             IN  IF blanks = {} THEN line
                 ELSE Drop(line, (CHOOSE i \in blanks : \A j \in blanks : j <= i) + 1)

\* what _query_status_using_qstat returns or raises on each of them, with the
\* state the scheduler reported
QstatResults ==
    [i \in 1..Len(QstatRuns) |->
        query_status_using_qstat(run_process(QstatRuns[i]))
        @@ [state |-> StateField(QstatRuns[i].stdout)]]

\* a job that left the queue has no job details on stdout
RunsFor ==
    [listed \in BOOLEAN |->
        {i \in 1..Len(QstatRuns) :
            \/ listed /\ ~StartsWith(Strip(QstatRuns[i].stderr), JobsDoNotExist)
            \/ ~listed /\ (QstatRuns[i].returncode # 0 \/ Strip(QstatRuns[i].stdout) = <<>>)}]

\* what the job wrapper can have written to the exit-status file
ExitFiles ==
    { <<"0", "\n">>, <<"1", "\n">>, <<"0">>, <<"1", "\n", "0", "\n">>,
      <<"1", "3", "7", "\n">>, <<"\n">>, <<>> }

\* ------------------------------------------------------------------ state

VARIABLES
    max_status_checks,  \* CookieCutter.get_max_qstat_checks()
    log_status_checks,  \* CookieCutter.get_log_status_checks()
    jobListed,          \* the scheduler still lists the job
    statfile,           \* {statdir}/{jobid}.exit: Absent, Unreadable or its text
    chk,                \* the get_status call of the current polling cycle
    twin,               \* the same call on the same inputs, log_status_checks negated
    inp,                \* what a Submitter is built from: job properties, site, arguments
    sub,                \* the Submitter.submit call
    logfs,              \* the log directory and the regular files at the log paths
    pair                \* two Submitter processes of two jobs and the log files they share

vars ==
    << max_status_checks, log_status_checks, jobListed, statfile, chk, twin,
       inp, sub, logfs, pair >>

\* the variables of the submitter processes
subvars == << inp, sub, logfs, pair >>

\* the variables of the poller process and of its environment
pollvars == << max_status_checks, log_status_checks, jobListed, statfile, chk, twin >>

\* no Submitter was built
NoInput == [built |-> FALSE]
NotSubmitting ==
    [pc |-> "idle", ops |-> <<>>, at_invoke |-> <<>>, cmd |-> <<>>, returncode |-> <<>>,
     printed |-> <<>>, exc |-> None, cause |-> None]
\* no log directory, so nothing at the two log paths
NoLogs == [dir |-> FALSE, out |-> "absent", err |-> "absent"]

\* no two submitters run side by side
NoPair == [jobs |-> <<>>, dirs |-> {}, files |-> {}, clobbered |-> FALSE]

\* no get_status call made yet
Idle ==
    [pc |-> "idle", tries |-> 0, status |-> None, ops |-> <<>>, whys |-> <<>>,
     token |-> <<>>, state |-> <<>>, logread |-> NotRead, ret |-> None, exc |-> None,
     err |-> <<>>]

\* get_status entered: status = None, no loop iteration done
Fresh == [Idle EXCEPT !.pc = "loop"]

\* print(..., file=sys.stderr) of the given messages, when enabled
Stderr(c, enabled, msgs) == IF enabled THEN [c EXCEPT !.err = c.err \o msgs] ELSE c

NeedsClusterLog_always(status) == TRUE

NeedsClusterLog_only_None(status) == status = None

\* line 215: status is None or status == "finished"
NeedsClusterLog(status) == status = None \/ status = "finished"

\* lines 215-242 up to the call of _query_status_using_cluster_log
AfterLoop(c, flag) ==
    IF NeedsClusterLog(c.status)
    THEN Stderr([c EXCEPT !.pc = "log"], flag,
               (IF c.status = None THEN << "failed n times" >> ELSE <<>>)
               \o (IF c.status = "finished" THEN << "finished" >> ELSE <<>>)
               \o << "checking exit status" >>)
    ELSE [c EXCEPT !.pc = "done", !.ret = c.status]

LoopContinues_one_more(tries, max) == tries <= max

LoopContinues_one_short(tries, max) == tries < max - 1

\* for _ in range(self.max_status_checks)
LoopContinues(tries, max) == tries < max

\* control at the loop header after `tries` iterations
Advance(c, max, flag) ==
    IF LoopContinues(c.tries, max) THEN [c EXCEPT !.pc = "loop"] ELSE AfterLoop(c, flag)

Caught_only_QstatError(e) == e = "QstatError"

\* the except clauses of the loop body
Caught(e) == e \in {"QstatError", "KeyError"}

OnCaught_no_sleep(c, max, flag) ==
    Advance(Stderr([c EXCEPT !.tries = c.tries + 1], flag,
                  << "predicted exception", "resuming" >>), max, flag)

OnCaught_logging_skips_sleep(c, max, flag) ==
    IF flag
    THEN Advance(Stderr([c EXCEPT !.tries = c.tries + 1], flag,
                       << "predicted exception", "resuming" >>), max, flag)
    ELSE [c EXCEPT !.pc = "sleep"]

\* lines 191-213: the handlers print when enabled, then call time.sleep
OnCaught(c, max, flag) ==
    Stderr([c EXCEPT !.pc = "sleep"], flag, << "predicted exception", "resuming" >>)

\* one loop iteration up to the sleep (lines 188-213), r being what
\* self._query_status_using_qstat() returned or raised
QstatStep(c, max, flag, r) ==
    LET c1 == [c EXCEPT !.ops = Append(c.ops, "qstat"),
                        !.whys = Append(c.whys, r.why),
                        !.token = r.token,
                        !.state = r.state]
    IN  IF c.pc # "loop" THEN c
        ELSE IF r.kind = "return" THEN AfterLoop([c1 EXCEPT !.status = r.value], flag)
        ELSE IF Caught(r.value) THEN OnCaught(c1, max, flag)
        ELSE [c1 EXCEPT !.pc = "done", !.exc = r.value]

\* time.sleep(self.wait_between_tries) returns: the next iteration, or the loop ends
SleepStep(c, max, flag) ==
    IF c.pc # "sleep" THEN c
    ELSE Advance([c EXCEPT !.ops = Append(c.ops, "sleep"), !.tries = c.tries + 1],
                 max, flag)

\* lines 241-242: status = self._query_status_using_cluster_log(); return status
LogStep(c, file) ==
    LET r == query_status_using_cluster_log(file)
        c1 == [c EXCEPT !.ops = Append(c.ops, "tail"), !.logread = file,
                        !.token = r.token, !.pc = "done"]
    IN  IF c.pc # "log" THEN c
        ELSE IF r.kind = "return" THEN [c1 EXCEPT !.status = r.value, !.ret = r.value]
        ELSE [c1 EXCEPT !.exc = r.value]

\* ---------------------------------------------------------------- actions

Init ==
    /\ max_status_checks \in 1..MaxChecks
    /\ log_status_checks \in BOOLEAN
    /\ jobListed = TRUE
    /\ statfile = Absent
    /\ chk = Idle
    /\ twin = Idle
    /\ inp = NoInput
    /\ sub = NotSubmitting
    /\ logfs = NoLogs
    /\ pair = NoPair

\* the workflow engine starts the poller for a polling cycle: get_status()
Invoke ==
    /\ chk.pc \in {"idle", "done", "interrupted"}
    /\ chk' = Advance(Fresh, max_status_checks, log_status_checks)
    /\ twin' = Advance(Fresh, max_status_checks, ~log_status_checks)
    /\ UNCHANGED << max_status_checks, log_status_checks, jobListed, statfile >>
    /\ UNCHANGED subvars

\* one loop iteration: the qstat command runs and its result is handled
QstatAttempt ==
    /\ chk.pc = "loop"
    /\ \E i \in RunsFor[jobListed] :
          /\ chk' = QstatStep(chk, max_status_checks, log_status_checks, QstatResults[i])
          /\ twin' = QstatStep(twin, max_status_checks, ~log_status_checks, QstatResults[i])
    /\ UNCHANGED << max_status_checks, log_status_checks, jobListed, statfile >>
    /\ UNCHANGED subvars

\* the sleep between tries ends
Sleep ==
    /\ chk.pc = "sleep"
    /\ chk' = SleepStep(chk, max_status_checks, log_status_checks)
    /\ twin' = SleepStep(twin, max_status_checks, ~log_status_checks)
    /\ UNCHANGED << max_status_checks, log_status_checks, jobListed, statfile >>
    /\ UNCHANGED subvars

\* the exit-status file is read and get_status returns or raises
ClusterLog ==
    /\ chk.pc = "log"
    /\ chk' = LogStep(chk, statfile)
    /\ twin' = LogStep(twin, statfile)
    /\ UNCHANGED << max_status_checks, log_status_checks, jobListed, statfile >>
    /\ UNCHANGED subvars

\* the job leaves the scheduler's queue
JobLeavesQueue ==
    /\ jobListed
    /\ jobListed' = FALSE
    /\ UNCHANGED << max_status_checks, log_status_checks, statfile, chk, twin >>
    /\ UNCHANGED subvars

\* the exit-status file appears
WriteExit ==
    /\ statfile = Absent
    /\ statfile' \in {File(t) : t \in ExitFiles} \cup {Unreadable}
    /\ UNCHANGED << max_status_checks, log_status_checks, jobListed, chk, twin >>
    /\ UNCHANGED subvars

\* KeyboardInterrupt raised inside get_status: no except clause of get_status
\* catches it, so the call is left at once
InterruptStep(c) ==
    IF c.pc \in {"loop", "sleep", "log"}
    THEN [c EXCEPT !.pc = "interrupted", !.exc = "KeyboardInterrupt"]
    ELSE c

\* a keyboard interrupt is delivered while get_status runs: during the qstat
\* command, the sleep between tries or the read of the exit-status file
Interrupt ==
    /\ chk.pc \in {"loop", "sleep", "log"}
    /\ chk' = InterruptStep(chk)
    /\ twin' = InterruptStep(twin)
    /\ UNCHANGED << max_status_checks, log_status_checks, jobListed, statfile >>
    /\ UNCHANGED subvars

main_interrupt_not_caught(c) ==
    IF c.pc \notin {"done", "interrupted"}
    THEN [exited |-> FALSE, code |-> 0, stdout |-> <<>>, traceback |-> FALSE]
    ELSE IF c.exc # None
    THEN [exited |-> TRUE, code |-> 1, stdout |-> <<>>, traceback |-> TRUE]
    ELSE [exited |-> TRUE, code |-> 0, stdout |-> << c.ret >>, traceback |-> FALSE]

\* the poller entry point (lines 244-250): what the process has printed to
\* standard output and how it ended, given the get_status call c
main(c) ==
    IF c.pc \notin {"done", "interrupted"}
    THEN [exited |-> FALSE, code |-> 0, stdout |-> <<>>, traceback |-> FALSE]
    ELSE IF c.exc = "KeyboardInterrupt"
    THEN [exited |-> TRUE, code |-> 0, stdout |-> <<>>, traceback |-> FALSE]
    ELSE IF c.exc # None
    THEN [exited |-> TRUE, code |-> 1, stdout |-> <<>>, traceback |-> TRUE]
    ELSE [exited |-> TRUE, code |-> 0, stdout |-> << c.ret >>, traceback |-> FALSE]

Next ==
    \/ Invoke
    \/ QstatAttempt
    \/ Sleep
    \/ ClusterLog
    \/ Interrupt
    \/ JobLeavesQueue
    \/ WriteExit

Spec == Init /\ [][Next]_vars

\* the poller runs to completion and the engine polls again each cycle
FairSpec ==
    /\ Spec
    /\ WF_vars(Invoke)
    /\ WF_vars(QstatAttempt)
    /\ WF_vars(Sleep)
    /\ WF_vars(ClusterLog)

\* ----------------------------------------------------------------- claims

Last(s) == s[Len(s)]
CountOps(c, op) == Cardinality({i \in 1..Len(c.ops) : c.ops[i] = op})

\* the statuses get_status may report
Statuses == {RUNNING, FAILED, SUCCESS}

\* why a queue query gave no raw token that maps through STATUS_TABLE
TransientWhys == {"returncode", "empty", "unknown"}

\* exit-status files whose last line is "0", and the one holding "1"
FilesSaying0 == {File(<<"0", "\n">>), File(<<"0">>), File(<<"1", "\n", "0", "\n">>)}
FileSaying1 == File(<<"1", "\n">>)

\* C1 as stated: in every attempt the completion log is read before the queue is
\* queried, and when the log's last line is "0" get_status returns success
\* without a single queue query.
C1_LogReadFirst ==
    /\ \A i \in 1..Len(chk.ops) :
          chk.ops[i] = "qstat" => i > 1 /\ chk.ops[i - 1] = "tail"
    /\ (chk.pc = "done" /\ chk.logread \in FilesSaying0)
          => chk.ret = SUCCESS /\ CountOps(chk, "qstat") = 0

\* C1 amended: every attempt starts with the queue query; the completion log is
\* read at most once, as the last operation of the call, and only when the loop
\* ended with no status (every attempt failed) or with "finished"; once a query
\* gave a mapped token the log is not read.
C1_QueueQueriedFirst ==
    /\ chk.ops # <<>> => chk.ops[1] = "qstat"
    /\ \A i \in 1..Len(chk.ops) :
          chk.ops[i] = "tail" =>
             /\ i = Len(chk.ops)
             /\ chk.pc = "done"
             /\ CountOps(chk, "qstat") >= 1
             /\ \/ Last(chk.whys) = "finished"
                \/ /\ Len(chk.whys) = max_status_checks
                   /\ \A j \in 1..Len(chk.whys) : chk.whys[j] \in TransientWhys
    /\ (\E j \in 1..Len(chk.whys) : chk.whys[j] = "mapped") => CountOps(chk, "tail") = 0
    /\ (chk.pc = "done" /\ chk.logread \in FilesSaying0) => chk.ret = SUCCESS

\* the log says "0" and get_status returned success after querying the queue
C1_Witness ==
    /\ chk.pc = "done"
    /\ chk.logread = File(<<"0", "\n">>)
    /\ chk.ret = SUCCESS
    /\ chk.ops = << "qstat", "tail" >>

\* C2 as stated: when all max_status_checks attempts fail transiently and the
\* completion log is absent, get_status returns failed.
C2_ExhaustedBudgetGivesFailed ==
    (/\ chk.pc = "done"
     /\ Len(chk.whys) = max_status_checks
     /\ \A j \in 1..Len(chk.whys) : chk.whys[j] \in TransientWhys
     /\ chk.logread = Absent)
    => chk.ret = FAILED

\* C2 amended: when all max_status_checks attempts fail transiently and the
\* completion log is absent, get_status returns running, without raising.
C2_ExhaustedBudgetGivesRunning ==
    (/\ chk.pc = "done"
     /\ Len(chk.whys) = max_status_checks
     /\ \A j \in 1..Len(chk.whys) : chk.whys[j] \in TransientWhys
     /\ chk.logread = Absent)
    => chk.ret = RUNNING /\ chk.exc = None

\* every attempt failed, each kind of transient failure occurring, the log absent
C2_Witness ==
    /\ chk.pc = "done"
    /\ max_status_checks = 3
    /\ chk.whys = << "empty", "returncode", "unknown" >>
    /\ chk.logread = Absent
    /\ chk.ret = RUNNING

\* the operations of k queue queries with a sleep after each of the first k-1
QueriesAndSleeps(k) == [i \in 1..(2 * k - 1) |-> IF i % 2 = 1 THEN "qstat" ELSE "sleep"]

\* C3: when the first k-1 queue queries give empty output and the k-th a
\* recognised token, get_status returns the token's mapped status after exactly
\* k queries and one sleep after each of the k-1 failures.
C3_KthQuerySucceeds ==
    \A k \in 1..max_status_checks :
       (/\ Len(chk.whys) = k
        /\ \A j \in 1..(k - 1) : chk.whys[j] = "empty"
        /\ chk.whys[k] = "mapped")
       => /\ chk.pc = "done"
          /\ chk.exc = None
          /\ chk.ret = STATUS_TABLE(chk.token)
          /\ chk.ops = QueriesAndSleeps(k)

\* two empty outputs, then "r": running after three queries and two sleeps
C3_Witness ==
    /\ chk.pc = "done"
    /\ chk.whys = << "empty", "empty", "mapped" >>
    /\ chk.token = <<"r">>
    /\ chk.ret = RUNNING
    /\ chk.ops = << "qstat", "sleep", "qstat", "sleep", "qstat" >>

\* C4: when every queue query fails (non-zero exit without the "do not exist"
\* message, or empty output), get_status issues exactly max_status_checks
\* queries, then reads the exit-status file exactly once and returns success
\* for "0" and failed for "1".
C4_AllQueriesFailThenLog ==
    (/\ chk.pc = "done"
     /\ chk.whys # <<>>
     /\ \A j \in 1..Len(chk.whys) : chk.whys[j] \in {"returncode", "empty"})
    => /\ CountOps(chk, "qstat") = max_status_checks
       /\ CountOps(chk, "tail") = 1
       /\ Last(chk.ops) = "tail"
       /\ chk.logread \in FilesSaying0 => chk.ret = SUCCESS
       /\ chk.logread = FileSaying1 => chk.ret = FAILED

\* three failing queries, then the log says "1"
C4_Witness ==
    /\ chk.pc = "done"
    /\ max_status_checks = 3
    /\ chk.whys = << "returncode", "empty", "returncode" >>
    /\ chk.logread = FileSaying1
    /\ chk.ret = FAILED
    /\ CountOps(chk, "tail") = 1

\* exit-status files whose last line is no key of STATUS_TABLE, and the empty file
FilesUnrecognised == {File(<<"1", "3", "7", "\n">>), File(<<"\n">>)}
FileEmpty == File(<<>>)

\* C5 as stated: an unrecognised last line or an empty completion log never
\* makes get_status raise; it ends in the verdict failed.
C5_LogTroubleGivesFailed ==
    (chk.pc = "done" /\ chk.logread \in FilesUnrecognised \cup {FileEmpty})
    => chk.exc = None /\ chk.ret = FAILED

\* C5 amended: the completion log is read once and not retried; an unrecognised
\* last line makes get_status raise KeyError and an empty file makes it raise
\* IndexError, and no status is returned.
C5_LogTroubleRaises ==
    /\ (chk.pc = "done" /\ chk.logread \in FilesUnrecognised)
          => chk.exc = "KeyError" /\ chk.ret = None /\ CountOps(chk, "tail") = 1
    /\ (chk.pc = "done" /\ chk.logread = FileEmpty)
          => chk.exc = "IndexError" /\ chk.ret = None /\ CountOps(chk, "tail") = 1

\* the log holds "137" and get_status raised KeyError
C5_Witness ==
    /\ chk.pc = "done"
    /\ chk.logread = File(<<"1", "3", "7", "\n">>)
    /\ chk.token = <<"1", "3", "7">>
    /\ chk.exc = "KeyError"

\* C6: an unrecognised token from the queue query costs one attempt: get_status
\* sleeps and goes on (to the next query or, after the last attempt, to the
\* log) unless a keyboard interrupt ends the call; it returns no verdict from
\* that token and the token makes it raise nothing.
C6_UnknownQueueTokenRetried ==
    \A i \in 1..Len(chk.whys) :
       chk.whys[i] = "unknown" =>
          /\ chk.exc \notin {None, "KeyboardInterrupt"} => Last(chk.ops) = "tail"
          /\ chk.ret # None => Last(chk.ops) = "tail" \/ Last(chk.whys) = "mapped"
          /\ \/ /\ chk.pc \in {"sleep", "interrupted"}
                /\ i = Len(chk.whys)
                /\ chk.tries = i - 1
                /\ chk.ret = None
             \/ /\ chk.tries >= i
                /\ Len(chk.ops) >= 2 * i
                /\ chk.ops[2 * i - 1] = "qstat"
                /\ chk.ops[2 * i] = "sleep"
                /\ i < max_status_checks =>
                      \/ Len(chk.ops) = 2 * i /\ chk.pc \in {"loop", "interrupted"}
                      \/ Len(chk.ops) > 2 * i /\ chk.ops[2 * i + 1] = "qstat"
                /\ i = max_status_checks =>
                      \/ Len(chk.ops) = 2 * i /\ chk.pc \in {"log", "interrupted"}
                      \/ Len(chk.ops) > 2 * i /\ chk.ops[2 * i + 1] = "tail"

\* state "T" is not in the table: one sleep, then the next query gives a status
C6_Witness ==
    /\ chk.pc = "done"
    /\ chk.whys = << "unknown", "mapped" >>
    /\ chk.ops = << "qstat", "sleep", "qstat" >>
    /\ chk.ret \in Statuses

\* C7 as stated: once the queue no longer lists the job, some polling cycle
\* eventually reports success or failed, whether or not the log is written.
C7_EventuallyTerminal ==
    [](~jobListed => <>(chk.pc = "done" /\ chk.ret \in {SUCCESS, FAILED}))

\* C7 amended: in a cycle where the queue says that the job does not exist,
\* get_status answers from the completion log alone: running while the file is
\* absent, and success or failed only when the file was there to read.
C7_GoneJobRunningUntilLog ==
    (chk.pc = "done" /\ chk.whys # <<>> /\ Last(chk.whys) = "finished")
    => /\ Last(chk.ops) = "tail"
       /\ chk.logread = Absent => chk.ret = RUNNING
       /\ chk.ret \in {SUCCESS, FAILED} => chk.logread.state = "file"

\* the job left the queue, no log was written, and the cycle answered running
C7_Witness ==
    /\ ~jobListed
    /\ statfile = Absent
    /\ chk.pc = "done"
    /\ Last(chk.ops) = "tail"
    /\ chk.whys = << "finished" >>
    /\ chk.ret = RUNNING

\* C8: a recognised token from the queue query is mapped and returned on that
\* attempt, with no further query, sleep or log read; as the first response it
\* costs exactly one query. r, t, s, x, R, qw give running; d, E give failed.
C8_RecognisedTokenReturned ==
    (chk.whys # <<>> /\ Last(chk.whys) = "mapped")
    => /\ chk.pc = "done"
       /\ chk.exc = None
       /\ chk.ops = QueriesAndSleeps(Len(chk.whys))
       /\ Len(chk.whys) = 1 => chk.ops = << "qstat" >>
       /\ chk.token \in { <<"r">>, <<"t">>, <<"s">>, <<"x">>, <<"R">>, <<"q", "w">> }
             => chk.ret = RUNNING
       /\ chk.token \in { <<"d">>, <<"E">> } => chk.ret = FAILED

\* qstat shows the job in state E: failed after one query
C8_Witness ==
    /\ chk.pc = "done"
    /\ chk.ops = << "qstat" >>
    /\ chk.token = <<"E">>
    /\ chk.ret = FAILED

\* C9: whatever get_status returns is running, failed or success; "finished" is
\* never returned.
C9_ReturnsAStatus ==
    /\ chk.ret # "finished"
    /\ chk.pc = "done" => (chk.ret \in Statuses \/ (chk.ret = None /\ chk.exc # None))
    /\ chk.pc # "done" => chk.ret = None

\* the queue said "finished" and the call returned a status
C9_Witness ==
    /\ chk.pc = "done"
    /\ chk.status \in Statuses
    /\ chk.ret = chk.status
    /\ Last(chk.whys) = "finished"

\* what a call does and gives, its diagnostic output left out
Observable(c) == [c EXCEPT !.err = <<>>]

\* C10: on the same responses get_status takes the same steps (queries, sleeps,
\* log reads) and returns or raises the same, whether log_status_checks is
\* true or false.
C10_LoggingDoesNotInterfere == Observable(chk) = Observable(twin)

\* a call with retries and a log read, where only one of the two runs printed
C10_Witness ==
    /\ chk.pc = "done"
    /\ chk.err # twin.err
    /\ CountOps(chk, "sleep") >= 2
    /\ Last(chk.ops) = "tail"

\* C11: a keyboard interrupt delivered while get_status runs (in particular
\* during the sleep between tries) ends the process with exit code 0, with
\* nothing printed to standard output and no unhandled error.
C11_InterruptExitsCleanly ==
    chk.pc = "interrupted"
    => main(chk) = [exited |-> TRUE, code |-> 0, stdout |-> <<>>, traceback |-> FALSE]

\* the interrupt arrived during the sleep that follows a failed query
C11_Witness ==
    /\ chk.pc = "interrupted"
    /\ chk.exc = "KeyboardInterrupt"
    /\ chk.ops = << "qstat", "sleep", "qstat" >>
    /\ chk.whys = << "empty", "returncode" >>
    /\ main(chk).code = 0

\* ================================================================ Submitter
\* uge_submit.py: the qsub command line derived from the job properties, and
\* the submission itself.

\* --------------------------------------------------------------- more text

Digit == << "0", "1", "2", "3", "4", "5", "6", "7", "8", "9" >>

\* str(n) for an integer n
RECURSIVE NatStr(_)
NatStr(n) == IF n < 10 THEN << Digit[n + 1] >> ELSE NatStr(n \div 10) \o << Digit[(n % 10) + 1] >>
IntStr(n) == IF n < 0 THEN << "-" >> \o NatStr(0 - n) ELSE NatStr(n)

\* sep.join(parts)
RECURSIVE JoinWith(_, _)
JoinWith(sep, parts) ==
    IF parts = <<>> THEN <<>>
    ELSE IF Len(parts) = 1 THEN parts[1]
    ELSE parts[1] \o sep \o JoinWith(sep, Tail(parts))

\* s.replace(a, b) for single characters a and b
ReplaceChar(s, a, b) == [i \in 1..Len(s) |-> IF s[i] = a THEN b ELSE s[i]]

\* needle in s
Contains(s, needle) ==
    \E i \in 1..(Len(s) - Len(needle) + 1) : SubSeq(s, i, i + Len(needle) - 1) = needle

\* an optional value of a mapping: <<>> when the key is absent, << v >> when present
Get(opt, default) == IF opt = <<>> THEN default ELSE opt[1]

\* "not value" for an optional number: None and 0 are falsy
Falsy(opt) == opt = <<>> \/ opt[1] = 0

\* ------------------------------------------------- derived resource fields

\* Submitter.threads
threads(s) == Get(s.props.threads, s.site.default_threads)

mem_mb_cluster_first(s) ==
    IF ~Falsy(s.props.cluster.mem_mb) THEN s.props.cluster.mem_mb[1]
    ELSE IF ~Falsy(s.props.resources.mem_mb) THEN s.props.resources.mem_mb[1]
    ELSE s.site.default_mem_mb

\* Submitter.mem_mb: the number of megabytes
mem_mb(s) ==
    IF ~Falsy(s.props.resources.mem_mb) THEN s.props.resources.mem_mb[1]
    ELSE IF ~Falsy(s.props.cluster.mem_mb) THEN s.props.cluster.mem_mb[1]
    ELSE s.site.default_mem_mb

\* the factor between two neighbouring memory units: decimal or binary
UnitScales == {1000, 1024}

\* Memory(value, Unit.MEGA).to(unit).value, as the fraction num / den
MemoryTo(value, unit, scale) ==
    IF unit = "KILO" THEN [num |-> value * scale, den |-> 1]
    ELSE IF unit = "MEGA" THEN [num |-> value, den |-> 1]
    ELSE [num |-> value, den |-> scale]

\* math.ceil(a / b) for a >= 0, b > 0
Ceil(a, b) == (a + b - 1) \div b

\* round(a / b, 2) in hundredths, for a >= 0, b > 0; a value half-way between
\* two hundredths goes to the even one
RoundHundredths(a, b) ==
    LET f == (100 * a) \div b
        r == (100 * a) % b
    IN  IF 2 * r < b THEN f
        ELSE IF 2 * r > b THEN f + 1
        ELSE IF f % 2 = 0 THEN f ELSE f + 1

\* Submitter.runtime: None (<<>>), or the minutes
runtime(s) == s.props.cluster.runtime

\* Submitter.penv
penv(s) == Get(s.props.resources.pe, <<"d", "e", "f", "_", "s", "l", "o", "t">>)

\* lines 113-122 of resources_cmd: the per-thread memory that is emitted
per_thread(s) ==
    LET m == MemoryTo(mem_mb(s), s.memory_units, s.unit_scale)
        pt == IF threads(s) > 1
              THEN Ceil(RoundHundredths(m.num, m.den * threads(s)), 100)
              ELSE Ceil(m.num, m.den)
    IN  IF s.site.use_singularity /\ pt < 4 THEN 4 ELSE pt

resources_cmd_pe_unless_one(s) ==
    (IF threads(s) # 1
     THEN <<"-", "p", "e", " ">> \o penv(s) \o << " " >> \o IntStr(threads(s)) \o << " " >>
     ELSE <<>>)
    \o <<"-", "l", " ", "s", "_", "v", "m", "e", "m", "=">> \o IntStr(per_thread(s)) \o <<"G", " ">>
    \o <<"-", "l", " ", "m", "e", "m", "_", "r", "e", "q", "=">> \o IntStr(per_thread(s)) \o <<"G">>
    \o (IF ~Falsy(runtime(s))
        THEN <<" ", "-", "l", " ", "h", "_", "r", "t", "=">> \o IntStr(runtime(s)[1] \div 60) \o << ":" >>
             \o IntStr(runtime(s)[1] % 60) \o <<":", "0", "0">>
        ELSE <<>>)

resources_cmd_pe_always(s) ==
    <<"-", "p", "e", " ">> \o penv(s) \o <<" ">> \o IntStr(threads(s)) \o <<" ">>
    \o <<"-", "l", " ", "s", "_", "v", "m", "e", "m", "=">> \o IntStr(per_thread(s)) \o <<"G", " ">>
    \o <<"-", "l", " ", "m", "e", "m", "_", "r", "e", "q", "=">> \o IntStr(per_thread(s)) \o <<"G">>
    \o (IF ~Falsy(runtime(s))
        THEN <<" ", "-", "l", " ", "h", "_", "r", "t", "=">> \o IntStr(runtime(s)[1] \div 60) \o <<":">>
             \o IntStr(runtime(s)[1] % 60) \o <<":", "0", "0">>
        ELSE <<>>)

\* Submitter.resources_cmd
resources_cmd(s) ==
    (IF threads(s) > 1
     THEN <<"-", "p", "e", " ">> \o penv(s) \o <<" ">> \o IntStr(threads(s)) \o <<" ">>
     ELSE <<>>)
    \o <<"-", "l", " ", "s", "_", "v", "m", "e", "m", "=">> \o IntStr(per_thread(s)) \o <<"G", " ">>
    \o <<"-", "l", " ", "m", "e", "m", "_", "r", "e", "q", "=">> \o IntStr(per_thread(s)) \o <<"G">>
    \o (IF ~Falsy(runtime(s))
        THEN <<" ", "-", "l", " ", "h", "_", "r", "t", "=">> \o IntStr(runtime(s)[1] \div 60) \o <<":">>
             \o IntStr(runtime(s)[1] % 60) \o <<":", "0", "0">>
        ELSE <<>>)

\* --------------------------------------------------- derived naming fields

\* Submitter.is_group_jobtype
is_group_jobtype(s) == Get(s.props.type, <<>>) = <<"g", "r", "o", "u", "p">>

\* Submitter.groupid
groupid(s) == Get(s.props.groupid, <<"g", "r", "o", "u", "p">>)

rule_name_ignores_group(s) == Get(s.props.rule, <<"r", "u", "l", "e", "_", "n", "a", "m", "e">>)

\* Submitter.rule_name
rule_name(s) ==
    IF ~is_group_jobtype(s) THEN Get(s.props.rule, <<"r", "u", "l", "e", "_", "n", "a", "m", "e">>) ELSE groupid(s)

wildcards_str_keeps_slash(s) ==
    LET joined == JoinWith(<<".">>, s.props.wildcards)
    IN  IF joined = <<>> THEN <<"u", "n", "i", "q", "u", "e">> ELSE joined

\* Submitter.wildcards_str, on the wildcard values in their order
wildcards_str(s) ==
    LET joined == ReplaceChar(JoinWith(<<".">>, s.props.wildcards), "/", "-")
    IN  IF joined = <<>> THEN <<"u", "n", "i", "q", "u", "e">> ELSE joined

\* str(v) for a jobid value: an integer or a text
ValueStr(v) == IF v.kind = "int" THEN IntStr(v.int) ELSE v.text

\* text.split("-")[0]
BeforeFirstHyphen(text) ==
    LET hy == {i \in 1..Len(text) : text[i] = "-"}
    IN  IF hy = {} THEN text
        ELSE SubSeq(text, 1, (CHOOSE i \in hy : \A j \in hy : i <= j) - 1)

jobid_always_first_segment(s) ==
    IF s.props.jobid = <<>> THEN <<>> ELSE BeforeFirstHyphen(ValueStr(s.props.jobid[1]))

\* Submitter.jobid
jobid(s) ==
    IF is_group_jobtype(s)
    THEN IF s.props.jobid = <<>> THEN <<>> ELSE BeforeFirstHyphen(s.props.jobid[1].text)
    ELSE IF s.props.jobid = <<>> THEN <<"N", "o", "n", "e">> ELSE ValueStr(s.props.jobid[1])

\* Submitter.jobname
jobname(s) ==
    IF is_group_jobtype(s)
    THEN groupid(s) \o <<"_">> \o jobid(s)
    ELSE Get(s.props.cluster.jobname, <<"s", "m", "k", ".">> \o rule_name(s) \o <<".">> \o wildcards_str(s))

\* Submitter.logdir
logdir(s) == s.site.log_dir \o <<"/">> \o rule_name(s)

\* Submitter.outlog
outlog(s) ==
    IF is_group_jobtype(s)
    THEN logdir(s) \o <<"/">> \o <<"g", "r", "o", "u", "p", "i", "d">> \o groupid(s) \o <<"_", "j", "o", "b", "i", "d">> \o jobid(s) \o <<".", "o", "u", "t">>
    ELSE logdir(s) \o <<"/">> \o jobname(s) \o <<".", "o", "u", "t">>

\* Submitter.errlog
errlog(s) ==
    IF is_group_jobtype(s)
    THEN logdir(s) \o <<"/">> \o <<"g", "r", "o", "u", "p", "i", "d">> \o groupid(s) \o <<"_", "j", "o", "b", "i", "d">> \o jobid(s) \o <<".", "e", "r", "r">>
    ELSE logdir(s) \o <<"/">> \o jobname(s) \o <<".", "e", "r", "r">>

\* Submitter.jobinfo_cmd
jobinfo_cmd(s) ==
    <<"-", "o", " ", "\"">> \o outlog(s) \o <<"\"", " ", "-", "e", " ", "\"">> \o errlog(s) \o <<"\"", " ", "-", "N", " ", "\"">> \o jobname(s) \o <<"\"">>

queue_default_when_empty(s) ==
    IF s.props.cluster.queue = <<>> \/ s.props.cluster.queue[1] = <<>>
    THEN s.site.default_queue
    ELSE s.props.cluster.queue[1]

\* Submitter.queue
queue(s) == Get(s.props.cluster.queue, s.site.default_queue)

\* Submitter.queue_cmd
queue_cmd(s) == IF queue(s) # <<>> THEN <<"-", "l", " ">> \o queue(s) ELSE <<>>

\* Config.params_for_rule: the flags of the entry for every rule, then those of
\* the rule's own entry, joined by spaces
params_for_rule(config, rulename) ==
    LET own == {e \in config.rules : e.rule = rulename}
    IN  JoinWith(<<" ">>, config.default
                        \o (IF own = {} THEN <<>> ELSE (CHOOSE e \in own : TRUE).flags))

\* Submitter.rule_specific_params
rule_specific_params(s) == params_for_rule(s.uge_config, rule_name(s))

\* Submitter.cluster_cmd: " ".join(cluster_args), line 51
cluster_cmd(s) == JoinWith(<<" ">>, s.cluster_args)

NonEmpty(text) == text # <<>>

submit_cmd_keeps_empty(s) ==
    JoinWith(<<" ">>, << <<"q", "s", "u", "b">>, resources_cmd(s), jobinfo_cmd(s), queue_cmd(s),
                      cluster_cmd(s), rule_specific_params(s), s.jobscript >>)

\* Submitter.submit_cmd
submit_cmd(s) ==
    JoinWith(<<" ">>,
             SelectSeq(<< <<"q", "s", "u", "b">>, resources_cmd(s), jobinfo_cmd(s), queue_cmd(s),
                          cluster_cmd(s), rule_specific_params(s), s.jobscript >>,
                       NonEmpty))

\* ------------------------------------------------------ the submission run

\* the value of the decimal digit c
DigitVal(c) == CHOOSE d \in 0..9 : Digit[d + 1] = c

RECURSIVE DigitsVal(_)
DigitsVal(ds) ==
    IF ds = <<>> THEN 0 ELSE 10 * DigitsVal(SubSeq(ds, 1, Len(ds) - 1)) + DigitVal(ds[Len(ds)])

IsDigit(c) == \E d \in 1..10 : Digit[d] = c

\* int(text): surrounding whitespace, an optional sign, then digits that single
\* underscores may separate; anything else is a ValueError
ParseInt(text) ==
    LET t == Strip(text)
        signed == t # <<>> /\ t[1] \in {"+", "-"}
        body == IF signed THEN Tail(t) ELSE t
        wellformed ==
            /\ body # <<>>
            /\ IsDigit(body[1]) /\ IsDigit(body[Len(body)])
            /\ \A i \in 1..Len(body) : IsDigit(body[i]) \/ body[i] = "_"
            /\ \A i \in 1..(Len(body) - 1) : ~(body[i] = "_" /\ body[i + 1] = "_")
        magnitude == DigitsVal(SelectSeq(body, IsDigit))
    IN  IF ~wellformed THEN Raise("ValueError", "int", <<>>)
        ELSE Return(IF signed /\ t[1] = "-" THEN 0 - magnitude ELSE magnitude, "int", <<>>)

\* Submitter._submit_cmd_and_get_external_job_id, given what the collaborator
\* OSLayer.run_process did with the submit command: raised a process error, or
\* returned the streams of the finished process
submit_cmd_and_get_external_job_id(run) ==
    IF run.raises THEN Raise("CalledProcessError", "process", <<>>)
    ELSE LET p == run_process(run)
         IN  IF p.output_stream = <<>> THEN Raise("JobidNotFoundError", "empty", <<>>)
             ELSE ParseInt(p.output_stream)

\* the except clauses of submit (lines 260-263): the error that leaves submit
\* for an error e raised inside the try block
Handled_process_error_is_no_jobid(e) ==
    IF e \in {"CalledProcessError", "AttributeError"} THEN "JobidNotFoundError"
    ELSE e

Handled(e) ==
    IF e = "CalledProcessError" THEN "QsubInvocationError"
    ELSE IF e = "AttributeError" THEN "JobidNotFoundError"
    ELSE e

\* OSLayer.remove_file on a path that is "absent", a regular "file" or a "dir"
remove_file_keeps(kind) == kind

remove_file(kind) == IF kind = "file" THEN "absent" ELSE kind

\* submit entered: nothing done yet
Submitting == [NotSubmitting EXCEPT !.pc = "mkdir"]

\* line 255: self._create_logdir()
CreateLogdirStep(b) == [b EXCEPT !.pc = "rm_out", !.ops = b.ops \o << "mkdir" >>]

\* line 244: OSLayer.remove_file(self.outlog)
RemoveOutStep(b) == [b EXCEPT !.pc = "rm_err", !.ops = b.ops \o << "remove_out" >>]

\* line 245: OSLayer.remove_file(self.errlog)
RemoveErrStep(b) == [b EXCEPT !.pc = "qsub", !.ops = b.ops \o << "remove_err" >>]

\* lines 257-263: the try block of submit and its except clauses
TryStep(b, s, fs, run) ==
    LET r == submit_cmd_and_get_external_job_id(run)
        invoked == [b EXCEPT !.ops = b.ops \o << "run_process" >>,
                             !.at_invoke = << fs >>,
                             !.cmd = << submit_cmd(s) >>,
                             !.returncode = IF run.raises THEN <<>> ELSE << run.returncode >>]
    IN  IF r.kind = "raise"
        THEN [invoked EXCEPT !.pc = "done", !.exc = Handled(r.value), !.cause = r.value]
        ELSE [invoked EXCEPT !.pc = "done",
                             !.ops = invoked.ops \o << "print" >>,
                             !.printed = << IntStr(r.value) >>]

\* ------------------------------------------- the submitter's environment

\* what running the submit command can do: the collaborator raises a process
\* error, or the process ends with an exit code and its two streams
QsubRun(rc, out, err) == [raises |-> FALSE, returncode |-> rc, stdout |-> out, stderr |-> err]

QsubRaises == [raises |-> TRUE, returncode |-> 1, stdout |-> <<>>, stderr |-> <<>>]

QsubRuns ==
    { QsubRaises,
      QsubRun(0, <<"1", "2", "3", "4", "5", "6">> \o << "\n" >>, <<>>),
      QsubRun(0, << " " >> \o <<"7", "7">> \o << "\n" >>, <<>>),
      QsubRun(0, <<>>, <<>>),
      QsubRun(0, << " ", "\n" >>, <<>>),
      QsubRun(0, <<"Y", "o", "u", "r", " ", "j", "o", "b", " ", "1", "2", "3", "4", "5", "6", " ", "(", "\"", "s", "m", "k", ".", "r", "1", ".", "0", "\"", ")", " ", "h", "a", "s", " ", "b", "e", "e", "n", " ", "s", "u", "b", "m", "i", "t", "t", "e", "d">> \o << "\n" >>, <<>>),
      QsubRun(0, <<"1", "2", "a">>, <<>>),
      QsubRun(1, <<>>, <<"U", "n", "a", "b", "l", "e", " ", "t", "o", " ", "r", "u", "n", " ", "j", "o", "b", ":", " ", "u", "n", "k", "n", "o", "w", "n", " ", "q", "u", "e", "u", "e">> \o << "\n" >>),
      QsubRun(1, <<"n", "o", " ", "s", "u", "c", "h", " ", "q", "u", "e", "u", "e">>, <<"e", "r", "r", "o", "r">>),
      QsubRun(1, <<"7", "7">> \o << "\n" >>, <<"q", "s", "u", "b", ":", " ", "j", "o", "b", " ", "r", "e", "j", "e", "c", "t", "e", "d">> \o << "\n" >>) }

\* what may be at the paths of the log directory and of the two logs when
\* submit is entered
PathKinds == {"absent", "file", "dir"}

LogStates ==
    { NoLogs }
    \cup { [dir |-> TRUE, out |-> o, err |-> e] : o \in PathKinds, e \in PathKinds }

\* read_job_properties(jobscript) with the keys the Submitter reads
BaseProps ==
    [type |-> << <<"s", "i", "n", "g", "l", "e">> >>, rule |-> << <<"r", "1">> >>, groupid |-> <<>>,
     jobid |-> << [kind |-> "int", int |-> 2, text |-> <<>>] >>,
     wildcards |-> << <<"0">> >>, threads |-> << 4 >>,
     resources |-> [mem_mb |-> << 5000 >>, pe |-> << <<"m", "p", "i">> >>],
     cluster |-> [mem_mb |-> <<>>, runtime |-> <<>>, queue |-> << <<"q", "1">> >>, jobname |-> <<>>]]

\* the values baked into CookieCutter.py
BaseSite ==
    [default_threads |-> 8, default_mem_mb |-> 1000, default_queue |-> <<>>,
     log_dir |-> <<"l", "o", "g", "d", "i", "r">>, use_singularity |-> FALSE]

NoConfig == [default |-> <<>>, rules |-> {}]

\* the Submitter the entry point builds (lines 275-281): memory_units is left
\* at its default, Unit.GIGA
BaseInput ==
    [built |-> TRUE, props |-> BaseProps, site |-> BaseSite, memory_units |-> "GIGA",
     unit_scale |-> 1000, uge_config |-> NoConfig, cluster_args |-> << <<"-", "V">> >>, jobscript |-> <<"j", "o", "b", ".", "s", "h">>]

ThreadValues == { <<>>, << 0 - 1 >>, << 0 >>, << 1 >>, << 2 >>, << 4 >> }
ResourceMemValues == { <<>>, << 0 >>, << 2002 >>, << 5000 >>, << 256005 >> }
ClusterMemValues == { <<>>, << 0 >>, << 3000 >> }
RuntimeValues == { <<>>, << 0 >>, << 90 >>, << 125 >> }
PeValues == { <<>>, << <<"m", "p", "i">> >> }

\* jobs that differ in what the resource flags are derived from
ResourceInputs ==
    { [BaseInput EXCEPT !.props.threads = t,
                        !.props.resources = [mem_mb |-> rm, pe |-> pe],
                        !.props.cluster.mem_mb = cm,
                        !.props.cluster.runtime = rt,
                        !.site.use_singularity = sg,
                        !.site.default_threads = dt,
                        !.unit_scale = us] :
        us \in UnitScales, t \in ThreadValues, rm \in ResourceMemValues, pe \in PeValues,
        cm \in ClusterMemValues, rt \in RuntimeValues, sg \in BOOLEAN, dt \in {1, 8} }

JobidValues ==
    { <<>>,
      << [kind |-> "int", int |-> 2, text |-> <<>>] >>,
      << [kind |-> "str", int |-> 0, text |-> <<"7", "-", "3">>] >>,
      << [kind |-> "str", int |-> 0, text |-> <<"a", "1", "b", "2", "-", "c", "3", "d", "4", "-", "e", "5">>] >> }

TypeValues == { <<>>, << <<"s", "i", "n", "g", "l", "e">> >>, << <<"g", "r", "o", "u", "p">> >>, << <<"G", "r", "o", "u", "p">> >> }
RuleValues == { <<>>, << <<"r", "1">> >> }
GroupidValues == { <<>>, << <<"g", "1">> >> }
WildcardValues == { <<>>, << <<>> >>, << <<"0">> >>, << <<"a", "/", "b">>, <<"c">> >> }
JobnameValues == { <<>>, << <<"m", "y", "j", "o", "b">> >> }

\* jobs that differ in what the names and paths are derived from; the jobid of
\* a group job is a text
NamingInputs ==
    { s \in { [BaseInput EXCEPT !.props.type = ty, !.props.rule = ru, !.props.groupid = gi,
                                !.props.jobid = ji, !.props.wildcards = wc,
                                !.props.cluster.jobname = jn] :
                ty \in TypeValues, ru \in RuleValues, gi \in GroupidValues,
                ji \in JobidValues, wc \in WildcardValues, jn \in JobnameValues } :
        ~(/\ s.props.type = << <<"g", "r", "o", "u", "p">> >>
          /\ s.props.jobid # <<>>
          /\ s.props.jobid[1].kind = "int") }

\* the rule override table of uge.yaml
Configs ==
    { NoConfig,
      [default |-> << <<"-", "P", " ", "p", "r", "o", "j">> >>, rules |-> {}],
      [default |-> <<>>, rules |-> { [rule |-> <<"r", "1">>, flags |-> << <<"-", "l", " ", "g", "p", "u", "=", "1">> >>] }],
      [default |-> << <<"-", "P", " ", "p", "r", "o", "j">> >>,
       rules |-> { [rule |-> <<"r", "1">>, flags |-> << <<"-", "l", " ", "g", "p", "u", "=", "1">>, <<"-", "R", " ", "y">> >>],
                   [rule |-> <<"r", "2">>, flags |-> << <<"-", "l", " ", "f", "a", "s", "t">> >>] }] }

\* jobs that differ in which segments of the submit command are empty
CommandInputs ==
    { [BaseInput EXCEPT !.props.cluster.queue = q, !.site.default_queue = dq,
                        !.cluster_args = ca, !.uge_config = cf] :
        q \in { <<>>, << <<>> >>, << <<"q", "1">> >> },
        dq \in { <<>>, <<"d", "q">> },
        ca \in { <<>>, << <<"-", "V">> >>, << <<"-", "c", "w", "d">>, <<"-", "V">> >> },
        cf \in Configs }

SubmitInputs == ResourceInputs \cup NamingInputs \cup CommandInputs

\* -------------------------------------------------- the submitter's steps

\* OSLayer.mkdir: parents = True, exist_ok = True
mkdir(fs) == [fs EXCEPT !.dir = TRUE]

\* the workflow engine starts the submitter for one job; nothing polls that
\* job before it is submitted
SubmitInit ==
    /\ inp \in SubmitInputs
    /\ logfs \in LogStates
    /\ inp \in CommandInputs \/ logfs = NoLogs
    /\ sub = Submitting
    /\ pair = NoPair
    /\ max_status_checks = 1
    /\ log_status_checks = FALSE
    /\ jobListed = TRUE
    /\ statfile = Absent
    /\ chk = Idle
    /\ twin = Idle

CreateLogdir ==
    /\ sub.pc = "mkdir"
    /\ sub' = CreateLogdirStep(sub)
    /\ logfs' = mkdir(logfs)
    /\ UNCHANGED inp
    /\ UNCHANGED pollvars
    /\ UNCHANGED pair

RemoveOut ==
    /\ sub.pc = "rm_out"
    /\ sub' = RemoveOutStep(sub)
    /\ logfs' = [logfs EXCEPT !.out = remove_file(logfs.out)]
    /\ UNCHANGED inp
    /\ UNCHANGED pollvars
    /\ UNCHANGED pair

RemoveErr ==
    /\ sub.pc = "rm_err"
    /\ sub' = RemoveErrStep(sub)
    /\ logfs' = [logfs EXCEPT !.err = remove_file(logfs.err)]
    /\ UNCHANGED inp
    /\ UNCHANGED pollvars
    /\ UNCHANGED pair

\* the submit command runs, and submit ends by printing the job id or raising
RunQsub ==
    /\ sub.pc = "qsub"
    /\ \E run \in QsubRuns : sub' = TryStep(sub, inp, logfs, run)
    /\ UNCHANGED << inp, logfs >>
    /\ UNCHANGED pollvars
    /\ UNCHANGED pair

SubmitNext ==
    \/ CreateLogdir
    \/ RemoveOut
    \/ RemoveErr
    \/ RunQsub

SubmitSpec == SubmitInit /\ [][SubmitNext]_vars

\* ================================================== claims on the submitter

\* the segments one after another, an empty one left out, one space before
\* every segment that is not the first one written
RECURSIVE SpacedConcat(_)
SpacedConcat(segs) ==
    IF segs = <<>> THEN <<>>
    ELSE LET rest == SpacedConcat(Tail(segs))
         IN  IF Head(segs) = <<>> THEN rest
             ELSE IF rest = <<>> THEN Head(segs)
             ELSE Head(segs) \o << " " >> \o rest

\* the submit command was handed to the process-execution collaborator
Invoked == sub.pc = "done" /\ sub.cmd # <<>>

\* C12: the command that submit runs is "qsub", the resource flags, the
\* job-info flags -o "outlog" -e "errlog" -N "jobname", the queue flag, the
\* extra arguments in their order, the rule-specific flags and the job script,
\* in this order with one space between them; an empty segment is left out, so
\* the command has no leading, trailing or doubled space
C12_SubmitCmdSegments ==
    Invoked =>
        LET cmd == sub.cmd[1]
            info == <<"-", "o", " ", "\"">> \o outlog(inp) \o <<"\"", " ", "-", "e", " ", "\"">> \o errlog(inp)
                    \o <<"\"", " ", "-", "N", " ", "\"">> \o jobname(inp) \o <<"\"">>
            args == SpacedConcat(inp.cluster_args)
        IN  /\ cmd = SpacedConcat(<< <<"q", "s", "u", "b">>, resources_cmd(inp), info, queue_cmd(inp), args,
                                     rule_specific_params(inp), inp.jobscript >>)
            /\ cmd[1] # " " /\ cmd[Len(cmd)] # " "
            /\ ~Contains(cmd, << " ", " " >>)

\* a job with no queue, no extra argument and one flag for every rule
C12_Witness ==
    /\ Invoked
    /\ queue_cmd(inp) = <<>> /\ cluster_cmd(inp) = <<>>
    /\ sub.cmd[1] = <<"q", "s", "u", "b", " ", "-", "p", "e", " ", "m", "p", "i", " ", "4", " ", "-", "l", " ", "s", "_", "v", "m", "e", "m", "=", "2", "G", " ", "-", "l", " ", "m", "e", "m", "_", "r", "e", "q", "=", "2", "G", " ", "-", "o", " ", "\"", "l", "o", "g", "d", "i", "r", "/", "r", "1", "/", "s", "m", "k", ".", "r", "1", ".", "0", ".", "o", "u", "t", "\"", " ", "-", "e", " ", "\"", "l", "o", "g", "d", "i", "r", "/", "r", "1", "/", "s", "m", "k", ".", "r", "1", ".", "0", ".", "e", "r", "r", "\"", " ", "-", "N", " ", "\"", "s", "m", "k", ".", "r", "1", ".", "0", "\"", " ", "-", "P", " ", "p", "r", "o", "j", " ", "j", "o", "b", ".", "s", "h">>

\* the per-thread memory that the resource flags of the command carry is n
EmitsMemory(n) ==
    Contains(sub.cmd[1],
             <<" ", "-", "l", " ", "s", "_", "v", "m", "e", "m", "=">> \o IntStr(n) \o <<"G", " ", "-", "l", " ", "m", "e", "m", "_", "r", "e", "q", "=">> \o IntStr(n) \o <<"G", " ">>)

\* the total memory in the cluster's unit, as a fraction
TotalInTargetUnit == MemoryTo(mem_mb(inp), inp.memory_units, inp.unit_scale)

\* C13: outside isolated execution and for a thread count of at least one, the
\* emitted per-thread memory is the ceiling of total / threads, so it is never
\* smaller than total / threads
C13_PerThreadIsCeiling ==
    Invoked /\ ~inp.site.use_singularity /\ threads(inp) >= 1 =>
        LET total == TotalInTargetUnit
            n == Ceil(total.num, total.den * threads(inp))
        IN  /\ EmitsMemory(n)
            /\ n * total.den * threads(inp) >= total.num

\* C14: submit creates the log directory, removes the out-log and the err-log,
\* runs the submit command once and then prints the job id, in this order; the
\* first three are done before the command runs also when the run fails, and
\* no regular file is at either log path when the command runs
C14_EffectsInOrder ==
    /\ \E n \in 0..5 : sub.ops = SubSeq(<< "mkdir", "remove_out", "remove_err", "run_process", "print" >>, 1, n)
    /\ sub.pc = "done" => Len(sub.ops) >= 4
    /\ Len(sub.ops) = 5 <=> sub.printed # <<>>
    /\ Invoked =>
        /\ sub.at_invoke[1].dir
        /\ sub.at_invoke[1].out # "file"
        /\ sub.at_invoke[1].err # "file"

\* a run of the command that fails, after the directory and both removals
C14_Witness ==
    /\ Invoked
    /\ sub.exc = "QsubInvocationError"
    /\ sub.ops = << "mkdir", "remove_out", "remove_err", "run_process" >>
    /\ sub.at_invoke[1] = [dir |-> TRUE, out |-> "absent", err |-> "absent"]
    /\ inp \in CommandInputs /\ inp.cluster_args = <<>>

\* C15: when the collaborator signals a process error for the submit command,
\* submit raises QsubInvocationError wrapping it, never JobidNotFoundError,
\* and prints nothing
C15_ProcessErrorIsQsubInvocationError ==
    sub.pc = "done" /\ sub.cause = "CalledProcessError" =>
        /\ sub.exc = "QsubInvocationError"
        /\ sub.printed = <<>>
        /\ Last(sub.ops) = "run_process"

C15_Witness ==
    /\ sub.pc = "done" /\ sub.cause = "CalledProcessError"
    /\ sub.exc = "QsubInvocationError"
    /\ sub.ops = << "mkdir", "remove_out", "remove_err", "run_process" >>
    /\ threads(inp) = 2

\* C16: when the submit command runs but its standard output is empty or is
\* not a number, submit raises JobidNotFoundError and no other kind of error
C16_UnparseableOutputIsJobidNotFound ==
    sub.pc = "done" /\ sub.cause # "CalledProcessError" /\ sub.printed = <<>> =>
        sub.exc = "JobidNotFoundError"

\* C17 as stated: a thread count that is zero or negative makes the derivation
\* of the resource flags fail with InvalidResourceError, so no command with
\* resource flags is run
C17_BadThreadsRejected ==
    sub.pc = "done" /\ threads(inp) <= 0 =>
        /\ sub.exc = "InvalidResourceError"
        /\ sub.cmd = <<>>

\* C17, amended: the thread count is not validated; with an integer thread
\* count of zero or less the resource flags are derived as for one thread (no
\* parallel-environment request, the undivided memory rounded up, at least 4
\* under isolated execution) and the command is run
C17_BadThreadsTreatedAsOne ==
    sub.pc = "done" /\ threads(inp) <= 0 =>
        LET total == TotalInTargetUnit
            whole == Ceil(total.num, total.den)
        IN  /\ Invoked
            /\ sub.exc # "InvalidResourceError"
            /\ ~Contains(sub.cmd[1], <<"-", "p", "e", " ">>)
            /\ StartsWith(sub.cmd[1], <<"q", "s", "u", "b", " ", "-", "l", " ", "s", "_", "v", "m", "e", "m", "=">>)
            /\ EmitsMemory(IF inp.site.use_singularity /\ whole < 4 THEN 4 ELSE whole)

\* zero threads and 5000 MB: the job is submitted with 5G and no -pe
C17_Witness ==
    /\ sub.pc = "done" /\ inp.props.threads = << 0 >>
    /\ sub.printed = << <<"1", "2", "3", "4", "5", "6">> >>
    /\ StartsWith(sub.cmd[1], <<"q", "s", "u", "b", " ", "-", "l", " ", "s", "_", "v", "m", "e", "m", "=", "5", "G", " ", "-", "l", " ", "m", "e", "m", "_", "r", "e", "q", "=", "5", "G", " ", "-", "o", " ">>)

\* C18: the total memory is resources.mem_mb, else cluster.mem_mb, else the
\* site default, where a level that is absent or 0 is passed over; the
\* command of a one-thread job outside isolated execution reserves that
\* amount, rounded up to whole units
C18_MemoryPrecedence ==
    Invoked =>
        LET rm == inp.props.resources.mem_mb
            cm == inp.props.cluster.mem_mb
            first == IF rm # <<>> /\ rm[1] # 0 THEN rm[1]
                     ELSE IF cm # <<>> /\ cm[1] # 0 THEN cm[1]
                     ELSE inp.site.default_mem_mb
        IN  /\ mem_mb(inp) = first
            /\ threads(inp) = 1 /\ ~inp.site.use_singularity
               => EmitsMemory(Ceil(first, inp.unit_scale))

\* resources.mem_mb is 0 and cluster.mem_mb is 3000: the job gets 3G
C18_Witness ==
    /\ Invoked
    /\ inp.props.resources.mem_mb = << 0 >> /\ inp.props.cluster.mem_mb = << 3000 >>
    /\ inp.props.threads = << 1 >>
    /\ mem_mb(inp) = 3000
    /\ StartsWith(sub.cmd[1], <<"q", "s", "u", "b", " ", "-", "l", " ", "s", "_", "v", "m", "e", "m", "=", "3", "G", " ", "-", "l", " ", "m", "e", "m", "_", "r", "e", "q", "=", "3", "G", " ">>)

\* C19: with cluster.runtime present the resource flags hold a hard and a soft
\* runtime limit with the same value, hours = runtime div 60 and minutes =
\* runtime mod 60; with cluster.runtime absent they hold neither
C19_HardAndSoftRuntime ==
    Invoked =>
        LET rt == inp.props.cluster.runtime
            value == IntStr(rt[1] \div 60) \o << ":" >> \o IntStr(rt[1] % 60)
        IN  IF rt # <<>>
            THEN /\ Contains(resources_cmd(inp), <<"h", "_", "r", "t", "=">> \o value)
                 /\ Contains(resources_cmd(inp), <<"s", "_", "r", "t", "=">> \o value)
                 /\ Contains(sub.cmd[1], resources_cmd(inp))
            ELSE /\ ~Contains(sub.cmd[1], <<"h", "_", "r", "t", "=">>)
                 /\ ~Contains(sub.cmd[1], <<"s", "_", "r", "t", "=">>)

\* C20: the resource flags request a parallel environment, "-pe {pe} {threads}"
\* with resources.pe or def_slot, exactly when threads > 1, and always hold
\* s_vmem and mem_req with one and the same per-thread memory
C20_ParallelEnvironmentAndMemory ==
    Invoked =>
        LET pe == IF inp.props.resources.pe = <<>> THEN <<"d", "e", "f", "_", "s", "l", "o", "t">> ELSE inp.props.resources.pe[1]
            request == <<"q", "s", "u", "b", " ", "-", "p", "e", " ">> \o pe \o << " " >> \o IntStr(threads(inp)) \o <<" ", "-", "l", " ", "s", "_", "v", "m", "e", "m", "=">>
        IN  /\ threads(inp) > 1 => StartsWith(sub.cmd[1], request)
            /\ ~(threads(inp) > 1) => ~Contains(sub.cmd[1], <<"-", "p", "e", " ">>)
            /\ EmitsMemory(per_thread(inp))

\* two threads and no resources.pe under isolated execution: def_slot is
\* requested and each thread gets the floor of 4G
C20_Witness ==
    /\ Invoked
    /\ inp.props.threads = << 2 >> /\ inp.props.resources.pe = <<>>
    /\ inp.site.use_singularity /\ inp.props.resources.mem_mb = << 2002 >>
    /\ StartsWith(sub.cmd[1], <<"q", "s", "u", "b", " ", "-", "p", "e", " ", "d", "e", "f", "_", "s", "l", "o", "t", " ", "2", " ", "-", "l", " ", "s", "_", "v", "m", "e", "m", "=", "4", "G", " ", "-", "l", " ", "m", "e", "m", "_", "r", "e", "q", "=", "4", "G", " ">>)

\* text without its last n characters
DropLast(text, n) == SubSeq(text, 1, Len(text) - n)

\* C21: a job is a group job exactly when its type is "group"; a job that is
\* not takes rule (default "rule_name") as its rule name and its job name as
\* the stem of both logs, a group job takes groupid (default "group") as its rule
\* name, in its job name and in the stem of both logs; the two logs are in the
\* same directory with the same stem and end in .out and .err; the command run
\* names these very paths and this job name
C21_OneBranchForAllNames ==
    Invoked =>
        LET group == inp.props.type = << <<"g", "r", "o", "u", "p">> >>
            rule == IF inp.props.rule = <<>> THEN <<"r", "u", "l", "e", "_", "n", "a", "m", "e">> ELSE inp.props.rule[1]
            gid == IF inp.props.groupid = <<>> THEN <<"g", "r", "o", "u", "p">> ELSE inp.props.groupid[1]
            name == IF group THEN gid ELSE rule
            dir == inp.site.log_dir \o << "/" >> \o name \o << "/" >>
            stem == IF group THEN <<"g", "r", "o", "u", "p", "i", "d">> \o gid \o <<"_", "j", "o", "b", "i", "d">> \o jobid(inp) ELSE jobname(inp)
        IN  /\ is_group_jobtype(inp) = group
            /\ rule_name(inp) = name
            /\ group => jobname(inp) = gid \o << "_" >> \o jobid(inp)
            /\ ~group /\ inp.props.cluster.jobname = <<>> => StartsWith(jobname(inp), <<"s", "m", "k", ".">> \o rule \o << "." >>)
            /\ outlog(inp) = dir \o stem \o <<".", "o", "u", "t">>
            /\ errlog(inp) = dir \o stem \o <<".", "e", "r", "r">>
            /\ DropLast(outlog(inp), 4) = DropLast(errlog(inp), 4)
            /\ Contains(sub.cmd[1], <<" ", "-", "o", " ", "\"">> \o dir \o stem \o <<".", "o", "u", "t", "\"", " ", "-", "e", " ", "\"">> \o dir \o stem
                                    \o <<".", "e", "r", "r", "\"", " ", "-", "N", " ", "\"">> \o jobname(inp) \o <<"\"", " ">>)

\* a group job that also has a rule: only the group id names it
C21_Witness ==
    /\ Invoked
    /\ inp.props.type = << <<"g", "r", "o", "u", "p">> >> /\ inp.props.rule = << <<"r", "1">> >>
    /\ inp.props.groupid = << <<"g", "1">> >> /\ inp.props.cluster.jobname = << <<"m", "y", "j", "o", "b">> >>
    /\ Contains(sub.cmd[1], <<" ", "-", "o", " ", "\"", "l", "o", "g", "d", "i", "r", "/", "g", "1", "/", "g", "r", "o", "u", "p", "i", "d", "g", "1", "_", "j", "o", "b", "i", "d", "a", "1", "b", "2", ".", "o", "u", "t", "\"", " ", "-", "e", " ", "\"", "l", "o", "g", "d", "i", "r", "/", "g", "1", "/", "g", "r", "o", "u", "p", "i", "d", "g", "1", "_", "j", "o", "b", "i", "d", "a", "1", "b", "2", ".", "e", "r", "r", "\"", " ", "-", "N", " ", "\"", "g", "1", "_", "a", "1", "b", "2", "\"", " ">>)

\* C22: the job id of a group job is its raw jobid up to, and without, the
\* first hyphen, and it is what the job name and both log names of the
\* command end in; the job id of a single job is the whole raw jobid as a
\* text, hyphens included
C22_JobidByType ==
    Invoked /\ inp.props.jobid # <<>> =>
        LET raw == inp.props.jobid[1]
            id == jobid(inp)
        IN  IF inp.props.type = << <<"g", "r", "o", "u", "p">> >>
            THEN /\ id = SubSeq(raw.text, 1, Len(id))
                 /\ \A i \in 1..Len(id) : id[i] # "-"
                 /\ Len(id) = Len(raw.text) \/ raw.text[Len(id) + 1] = "-"
                 /\ Contains(sub.cmd[1], <<"_", "j", "o", "b", "i", "d">> \o id \o <<".", "o", "u", "t", "\"", " ">>)
                 /\ Contains(sub.cmd[1], << "_" >> \o id \o <<"\"", " ">>)
            ELSE id = (IF raw.kind = "int" THEN IntStr(raw.int) ELSE raw.text)

\* a single job whose jobid has a hyphen keeps all of it
C22_Witness ==
    /\ Invoked
    /\ inp.props.type = << <<"s", "i", "n", "g", "l", "e">> >>
    /\ inp.props.jobid = << [kind |-> "str", int |-> 0, text |-> <<"7", "-", "3">>] >>
    /\ jobid(inp) = <<"7", "-", "3">>

\* the values one after another with a "." between neighbours
RECURSIVE Dotted(_)
Dotted(values) ==
    IF values = <<>> THEN <<>>
    ELSE IF Len(values) = 1 THEN values[1]
    ELSE values[1] \o << "." >> \o Dotted(Tail(values))

\* the text with "-" in the place of every "/"
Slashless(text) == [i \in 1..Len(text) |-> IF text[i] = "/" THEN "-" ELSE text[i]]

\* the job name when the wildcards string is w
JobnameWith(w) ==
    IF inp.props.type = << <<"g", "r", "o", "u", "p">> >>
    THEN (IF inp.props.groupid = <<>> THEN <<"g", "r", "o", "u", "p">> ELSE inp.props.groupid[1])
         \o << "_" >> \o jobid(inp)
    ELSE IF inp.props.cluster.jobname # <<>> THEN inp.props.cluster.jobname[1]
    ELSE <<"s", "m", "k", ".">> \o (IF inp.props.rule = <<>> THEN <<"r", "u", "l", "e", "_", "n", "a", "m", "e">> ELSE inp.props.rule[1])
         \o << "." >> \o w

\* C23 as stated: the job name is {groupid}_{jobid} for a group job, else
\* cluster.jobname when present, else smk.{rule name}.{wildcards string}; the
\* wildcards string is the values joined by "." with "/" replaced by "-", and
\* "unique" when there are no wildcards
C23_JobnameAsStated ==
    Invoked =>
        jobname(inp) = JobnameWith(IF inp.props.wildcards = <<>> THEN <<"u", "n", "i", "q", "u", "e">>
                                   ELSE Slashless(Dotted(inp.props.wildcards)))

\* C23, amended: as stated, but the wildcards string is "unique" whenever the
\* joined values are the empty text, which is also so for a single wildcard
\* with an empty value; the command names the job so with -N
C23_Jobname ==
    Invoked =>
        LET joined == Slashless(Dotted(inp.props.wildcards))
            name == JobnameWith(IF joined = <<>> THEN <<"u", "n", "i", "q", "u", "e">> ELSE joined)
        IN  /\ jobname(inp) = name
            /\ Contains(sub.cmd[1], <<" ", "-", "N", " ", "\"">> \o name \o <<"\"", " ">>)

\* one wildcard with an empty value: the job is smk.r1.unique
C23_Witness ==
    /\ Invoked
    /\ inp.props.wildcards = << <<>> >> /\ inp.props.type = << <<"s", "i", "n", "g", "l", "e">> >>
    /\ inp.props.cluster.jobname = <<>>
    /\ Contains(sub.cmd[1], <<" ", "-", "N", " ", "\"", "s", "m", "k", ".", "r", "1", ".", "u", "n", "i", "q", "u", "e", "\"", " ">>)

\* C24: the queue is cluster.queue when the job has that key, and the site
\* default queue when it has not; in the command "-l {queue}" comes right
\* after the job-info flags when the queue is not the empty text, and the
\* extra arguments, rule flags and job script follow them at once when it is
C24_QueueFlag ==
    Invoked =>
        LET q == IF inp.props.cluster.queue # <<>> THEN inp.props.cluster.queue[1]
                 ELSE inp.site.default_queue
            flag == IF q # <<>> THEN <<"-", "l", " ">> \o q ELSE <<>>
        IN  /\ queue(inp) = q
            /\ queue_cmd(inp) = flag
            /\ Contains(sub.cmd[1],
                        <<" ", "-", "N", " ", "\"">> \o jobname(inp) \o <<"\"", " ">>
                        \o SpacedConcat(<< flag, SpacedConcat(inp.cluster_args),
                                           rule_specific_params(inp), inp.jobscript >>))

\* cluster.queue is there and empty: the site default is not used, no flag
C24_Witness ==
    /\ Invoked
    /\ inp.props.cluster.queue = << <<>> >> /\ inp.site.default_queue = <<"d", "q">>
    /\ inp.cluster_args = <<>> /\ inp.uge_config = NoConfig
    /\ Contains(sub.cmd[1], <<" ", "-", "N", " ", "\"", "s", "m", "k", ".", "r", "1", ".", "0", "\"", " ", "j", "o", "b", ".", "s", "h">>)

\* C25: under isolated execution the emitted per-thread memory is the larger
\* of 4 and the ceiling of total / threads, so never below 4; without it the
\* ceiling is emitted as it is
C25_FloorOfFour ==
    Invoked /\ threads(inp) >= 1 =>
        LET total == TotalInTargetUnit
            ceiling == Ceil(total.num, total.den * threads(inp))
        IN  IF inp.site.use_singularity
            THEN EmitsMemory(IF ceiling < 4 THEN 4 ELSE ceiling)
            ELSE EmitsMemory(ceiling)

\* ======================================= claims on the poller, continued

\* the poller under any attempt budget of the site, zero included
AnyBudgetInit ==
    /\ max_status_checks \in 0..MaxChecks
    /\ log_status_checks \in BOOLEAN
    /\ jobListed = TRUE
    /\ statfile = Absent
    /\ chk = Idle
    /\ twin = Idle
    /\ inp = NoInput
    /\ sub = NotSubmitting
    /\ logfs = NoLogs
    /\ pair = NoPair

AnyBudgetSpec == AnyBudgetInit /\ [][Next]_vars

\* get_status is running
Running == chk.pc \in {"loop", "sleep", "log"}

\* C26: every call of get_status ends, whatever the queue query and the
\* exit-status file do and for every attempt budget from zero up: it makes at
\* most max_status_checks queue queries, at most max_status_checks sleeps and
\* at most one read of the exit-status file, and each of its steps is one more
\* of these operations or its end, so it ends within 2 * max_status_checks + 1
\* steps once each blocking call returns
C26_GetStatusTerminates ==
    /\ [](/\ CountOps(chk, "qstat") <= max_status_checks
          /\ CountOps(chk, "sleep") <= max_status_checks
          /\ CountOps(chk, "tail") <= 1
          /\ Len(chk.ops) <= 2 * max_status_checks + 1
          /\ chk.pc = "log" => CountOps(chk, "tail") = 0
          /\ max_status_checks = 0 /\ chk.pc = "done" => chk.ops = << "tail" >>)
    /\ [][Running /\ chk' # chk => \/ ~Running'
                                   \/ Len(chk'.ops) = Len(chk.ops) + 1]_vars

\* a call that used its whole budget of two or more attempts, and then the file
C26_Witness ==
    /\ chk.pc = "done"
    /\ max_status_checks >= 2
    /\ CountOps(chk, "qstat") = max_status_checks
    /\ CountOps(chk, "sleep") = max_status_checks
    /\ CountOps(chk, "tail") = 1

\* the last queue query of the call was answered "Following jobs do not exist"
JobGone == chk.whys # <<>> /\ Last(chk.whys) = "finished"

\* C27: when the queue command exits non-zero with an error stream that begins
\* "Following jobs do not exist", get_status makes no further query and no
\* sleep, whatever is left of its budget; it reads the exit-status file once
\* and takes its result from it: the mapped token when the file is there, and
\* running, with nothing raised, when the file is absent
C27_GoneJobGoesToLogAtOnce ==
    JobGone =>
        LET k == Len(chk.whys)
        IN  /\ chk.pc \in {"log", "done", "interrupted"}
            /\ chk.pc = "log" => chk.ops = QueriesAndSleeps(k)
            /\ chk.pc = "done" =>
                /\ chk.ops = QueriesAndSleeps(k) \o << "tail" >>
                /\ chk.logread = Absent => chk.ret = RUNNING /\ chk.exc = None
                /\ chk.logread \in FilesSaying0 => chk.ret = SUCCESS /\ chk.exc = None
                /\ chk.logread = FileSaying1 => chk.ret = FAILED /\ chk.exc = None

\* the first query of a budget of three says the job is gone and the file holds "0"
C27_Witness ==
    /\ max_status_checks = 3
    /\ chk.pc = "done"
    /\ chk.whys = << "finished" >>
    /\ chk.ops = << "qstat", "tail" >>
    /\ chk.logread \in FilesSaying0
    /\ chk.ret = SUCCESS

\* ===================================== claims on the submitter, continued

\* C28: submit prints the external job id, once, only in a run where the
\* submit command ended with exit code 0 and its standard output is the text
\* of an integer; in every other outcome (a non-zero exit code, a process
\* error, empty or unparseable output) it prints nothing and raises an error
C28_PrintsOnlyOnSuccess ==
    sub.pc = "done" =>
        /\ Len(sub.printed) <= 1
        /\ CountOps(sub, "print") = Len(sub.printed)
        /\ sub.printed # <<>> => sub.returncode = << 0 >> /\ sub.exc = None
        /\ sub.printed = <<>> => sub.exc # None

\* ------------------------------------ two submitters running side by side

\* the two answers of the submit command that matter here
PairRuns == { QsubRaises, QsubRun(0, <<"1", "2", "3", "4", "5", "6">> \o << "\n" >>, <<>>) }

PairJob(ru, wc, jn) ==
    [BaseInput EXCEPT !.props.rule = << ru >>, !.props.wildcards = wc,
                      !.props.cluster.jobname = jn]

\* jobs of two rules under one site log root
PairJobs ==
    { PairJob(ru, wc, jn) :
        ru \in { <<"r", "1">>, <<"r", "2">> },
        wc \in { << <<"0">> >>, << <<"a", "/", "b">> >>, << <<"a", "-", "b">> >> },
        jn \in JobnameValues }

\* two distinct jobs: they differ in rule or in wildcard values
DistinctJobs(a, b) == a.props.rule # b.props.rule \/ a.props.wildcards # b.props.wildcards

\* a Submitter process that entered submit, whose job has written no log yet
Instance(s) == [inp |-> s, sub |-> Submitting, wrote |-> FALSE]

\* what Path.is_file() says of a path, given the log files of submitted jobs
KindOf(files, path) == IF \E f \in files : f.path = path THEN "file" ELSE "absent"

\* the log directory and the two log paths as instance me sees them
LogsSeenBy(p, me) ==
    [dir |-> logdir(me.inp) \in p.dirs,
     out |-> KindOf(p.files, outlog(me.inp)),
     err |-> KindOf(p.files, errlog(me.inp))]

\* OSLayer.remove_file(path) by instance i: the file at the path goes, whoever
\* wrote it; clobbered records that it was the log of the other instance's job
RemoveBy(p, i, path) ==
    [p EXCEPT !.files = { f \in p.files : f.path # path },
              !.clobbered = p.clobbered \/ \E f \in p.files : f.path = path /\ f.owner # i]

PairInit ==
    /\ \E a \in PairJobs, b \in PairJobs :
          /\ DistinctJobs(a, b)
          /\ pair = [jobs |-> << Instance(a), Instance(b) >>, dirs |-> {}, files |-> {},
                     clobbered |-> FALSE]
    /\ inp = NoInput
    /\ sub = NotSubmitting
    /\ logfs = NoLogs
    /\ max_status_checks = 1
    /\ log_status_checks = FALSE
    /\ jobListed = TRUE
    /\ statfile = Absent
    /\ chk = Idle
    /\ twin = Idle

PairCreateLogdir ==
    /\ \E i \in 1..2 :
          /\ pair.jobs[i].sub.pc = "mkdir"
          /\ pair' = [pair EXCEPT !.jobs[i].sub = CreateLogdirStep(@),
                                  !.dirs = @ \cup { logdir(pair.jobs[i].inp) }]
    /\ UNCHANGED << inp, sub, logfs >>
    /\ UNCHANGED pollvars

PairRemoveOut ==
    /\ \E i \in 1..2 :
          /\ pair.jobs[i].sub.pc = "rm_out"
          /\ pair' = [RemoveBy(pair, i, outlog(pair.jobs[i].inp))
                        EXCEPT !.jobs[i].sub = RemoveOutStep(@)]
    /\ UNCHANGED << inp, sub, logfs >>
    /\ UNCHANGED pollvars

PairRemoveErr ==
    /\ \E i \in 1..2 :
          /\ pair.jobs[i].sub.pc = "rm_err"
          /\ pair' = [RemoveBy(pair, i, errlog(pair.jobs[i].inp))
                        EXCEPT !.jobs[i].sub = RemoveErrStep(@)]
    /\ UNCHANGED << inp, sub, logfs >>
    /\ UNCHANGED pollvars

PairRunQsub ==
    /\ \E i \in 1..2, run \in PairRuns :
          /\ pair.jobs[i].sub.pc = "qsub"
          /\ pair' = [pair EXCEPT !.jobs[i].sub =
                         TryStep(@, pair.jobs[i].inp, LogsSeenBy(pair, pair.jobs[i]), run)]
    /\ UNCHANGED << inp, sub, logfs >>
    /\ UNCHANGED pollvars

\* a submitted job starts on the cluster and the scheduler writes its two logs
\* at the paths given with -o and -e
JobWritesLogs ==
    /\ \E i \in 1..2 :
          /\ pair.jobs[i].sub.pc = "done"
          /\ pair.jobs[i].sub.printed # <<>>
          /\ ~pair.jobs[i].wrote
          /\ pair' = [pair EXCEPT !.jobs[i].wrote = TRUE,
                                  !.files = @ \cup { [path |-> outlog(pair.jobs[i].inp), owner |-> i],
                                                     [path |-> errlog(pair.jobs[i].inp), owner |-> i] }]
    /\ UNCHANGED << inp, sub, logfs >>
    /\ UNCHANGED pollvars

PairNext ==
    \/ PairCreateLogdir
    \/ PairRemoveOut
    \/ PairRemoveErr
    \/ PairRunQsub
    \/ JobWritesLogs

PairSpec == PairInit /\ [][PairNext]_vars

\* C29: two submitters run side by side for two distinct jobs under one log
\* root compute different out-log and err-log paths, so whatever the
\* interleaving, the removal of stale logs by one never deletes a log of the
\* job the other has submitted
C29_DistinctJobsDistinctLogs ==
    pair.jobs # <<>> =>
        /\ outlog(pair.jobs[1].inp) # outlog(pair.jobs[2].inp)
        /\ errlog(pair.jobs[1].inp) # errlog(pair.jobs[2].inp)
        /\ ~pair.clobbered

\* ---------------------------------------------------------------- claims on the poller, state field

\* the states qstat can report, per the scheduler's manual, and some composites
SchedulerStates ==
    { <<"d">>, <<"E">>, <<"h">>, <<"r">>, <<"R">>, <<"s">>, <<"S">>, <<"N">>, <<"P">>, <<"t">>, <<"T">>, <<"w">>,
      <<"q", "w">>, <<"E", "q", "w">>, <<"h", "q", "w">>, <<"d", "r">> }

\* C30: the status a queue query assigns depends on the whole state field of the
\* job_state line: a state that is a key of STATUS_TABLE as a whole is mapped
\* to the table's status for it, any other state is rejected as an unrecognised
\* token; an error state such as Eqw is never reported as running.
C30_WholeStateFieldDecides ==
    (chk.ops # <<>> /\ Last(chk.ops) = "qstat" /\ chk.state \in SchedulerStates)
    => /\ chk.state \in StatusKeys
            => Last(chk.whys) = "mapped" /\ chk.status = STATUS_TABLE(chk.state)
       /\ chk.state \notin StatusKeys
            => Last(chk.whys) = "unknown" /\ chk.ret = None
       /\ chk.state = <<"E", "q", "w">> => chk.ret # RUNNING

====
